---- MODULE Spec2Model ----
(***************************************************************************)
(* Model of the method-chaining analyser (src/src/lib.rs): the comment     *)
(* stripper remove_comments, the tokenizer tokenize and the recursive      *)
(* chain detector sloppy_method_chain_detection_rec.  Each component is a  *)
(* state machine that reads its input one element at a time, exactly as    *)
(* the loops of the source do.  The driver (src/src/main.rs: main and      *)
(* process_project_dir) is a fourth machine that lists the projects, folds *)
(* the chain lengths of each file into a histogram and writes the CSV.     *)
(***************************************************************************)
EXTENDS Integers, Sequences, FiniteSets, TLC

VARIABLES
    contents,    \* remove_comments: the text being stripped (sequence of characters)
    rc_pos,      \* remove_comments: number of characters read by the for loop
    rc_state,    \* remove_comments: the local `state`
    rc_output,   \* remove_comments: the local `output`
    rc_done,     \* remove_comments: TRUE once `output` was returned
    tk_contents, \* tokenize: the text being tokenized (sequence of characters)
    tk_pos,      \* tokenize: number of characters read by the for loop
    token,       \* tokenize: the local `token`, the pending run of word characters
    tk_output,   \* tokenize: the local `output`
    tk_done,     \* tokenize: TRUE once `output` was returned
    input,       \* detector: the token vector handed to the detector
    tokens,      \* detector: the VecDeque the invocations pop from
    stack,       \* detector: the active invocations, the running one last
    result,      \* detector: the list returned by the top-level invocation
    det_done,    \* detector: TRUE once the top-level invocation has returned
    tree,        \* main: the entries of the project directories
    root_readable, \* main: whether config.project_dir can be listed
    m_pc,        \* main: where the run is
    project,     \* main: the number i + 1 of the project being processed
    java_paths,  \* process_project_dir: the .java paths not read yet
    accumulator, \* process_project_dir: the histogram being folded
    histogram,   \* main: the rows of the project not written yet
    file         \* main: the lines written to the CSV file

rcVars  == <<contents, rc_pos, rc_state, rc_output, rc_done>>
tkVars  == <<tk_contents, tk_pos, token, tk_output, tk_done>>
detVars == <<input, tokens, stack, result, det_done>>
mainVars == <<tree, root_readable, m_pc, project, java_paths, accumulator, histogram, file>>
vars == <<rcVars, tkVars, detVars, mainVars>>

\* ---------------------------------------------------------------- bounds
MaxChars == 6      \* longest text given to remove_comments
MaxText == 4       \* longest text given to tokenize
MaxTokens == 5     \* longest arbitrary token vector given to the detector
MaxCalls == 4      \* longest flat chain of calls
MaxSegments == 4   \* longest chain of call / property segments
MaxArgs == 3       \* most argument calls of a nested call
MaxProjects == 2   \* number of project directories
MaxEntries == 3    \* most entries in the trees of all projects together

\* ------------------------------------------------------------ characters
\* The characters remove_comments tells apart, and one ordinary character.
RcAlphabet == {"/", "*", "\n", "\r", "a"}

SeqsUpTo(S, n) == UNION {[1..k -> S] : k \in 0..n}

Prefix(s, n) == SubSeq(s, 1, n)

\* ------------------------------------------------------- remove_comments
RcStates == {"Basic", "SlashFound", "LineComment", "BlockComment", "StarFoundInComment"}

\* The arms of the match, by state: the next state and the characters
\* pushed to output.
BasicArm(character) ==
    IF character = "/" THEN [state |-> "SlashFound", push |-> <<>>]
    ELSE [state |-> "Basic", push |-> <<character>>]

\* SlashFoundArm without the arm that opens a block comment.
SlashFoundArm_NoBlock(character) ==
    CASE character = "/" -> [state |-> "LineComment", push |-> <<>>]
      [] OTHER           -> [state |-> "Basic", push |-> <<"/", character>>]

SlashFoundArm(character) ==
    CASE character = "/" -> [state |-> "LineComment", push |-> <<>>]
      [] character = "*" -> [state |-> "BlockComment", push |-> <<>>]
      [] OTHER           -> [state |-> "Basic", push |-> <<"/", character>>]

\* LineCommentArm with a terminator that only `\n` provides.
LineCommentArm_NewlineOnly(character) ==
    CASE character = "\n" -> [state |-> "Basic", push |-> <<>>]
      [] OTHER            -> [state |-> "LineComment", push |-> <<>>]

LineCommentArm(character) ==
    CASE character = "\n" -> [state |-> "Basic", push |-> <<>>]
      [] character = "\r" -> [state |-> "Basic", push |-> <<>>]
      [] OTHER            -> [state |-> "LineComment", push |-> <<>>]

BlockCommentArm(character) ==
    IF character = "*" THEN [state |-> "StarFoundInComment", push |-> <<>>]
    ELSE [state |-> "BlockComment", push |-> <<>>]

\* StarFoundInCommentArm that forgets the star on a second star.
StarFoundInCommentArm_StarRun(character) ==
    CASE character = "/" -> [state |-> "Basic", push |-> <<>>]
      [] OTHER           -> [state |-> "BlockComment", push |-> <<>>]

StarFoundInCommentArm(character) ==
    CASE character = "/" -> [state |-> "Basic", push |-> <<>>]
      [] character = "*" -> [state |-> "StarFoundInComment", push |-> <<>>]
      [] OTHER           -> [state |-> "BlockComment", push |-> <<>>]

\* match (&state, character)
RemoveCommentsArm(state, character) ==
    CASE state = "Basic"              -> BasicArm(character)
      [] state = "SlashFound"         -> SlashFoundArm(character)
      [] state = "LineComment"        -> LineCommentArm(character)
      [] state = "BlockComment"       -> BlockCommentArm(character)
      [] state = "StarFoundInComment" -> StarFoundInCommentArm(character)

\* The locals of remove_comments before the loop.
RcStart == [state |-> "Basic", output |-> <<>>]

\* One iteration of the for loop on the locals rc = [state, output].
RcIterate(rc, character) ==
    LET arm == RemoveCommentsArm(rc.state, character)
    IN  [state |-> arm.state, output |-> rc.output \o arm.push]

\* The locals after the loop has read all of s.
RECURSIVE RcRun(_)
RcRun(s) ==
    IF s = <<>> THEN RcStart
    ELSE RcIterate(RcRun(Prefix(s, Len(s) - 1)), s[Len(s)])

\* remove_comments(contents): the loop, then `output` is returned.
remove_comments(s) == RcRun(s).output

\* A component that is not under analysis: nothing to read, already returned.
RcIdle ==
    /\ contents = <<>>
    /\ rc_pos = 0
    /\ rc_state = RcStart.state
    /\ rc_output = RcStart.output
    /\ rc_done = TRUE

RcBegin ==
    /\ contents \in SeqsUpTo(RcAlphabet, MaxChars)
    /\ rc_pos = 0
    /\ rc_state = RcStart.state
    /\ rc_output = RcStart.output
    /\ rc_done = FALSE

\* The for loop reads the next character.
RcChar ==
    /\ ~rc_done
    /\ rc_pos < Len(contents)
    /\ LET rc == RcIterate([state |-> rc_state, output |-> rc_output], contents[rc_pos + 1])
       IN  /\ rc_state' = rc.state
           /\ rc_output' = rc.output
    /\ rc_pos' = rc_pos + 1
    /\ UNCHANGED <<contents, rc_done, tkVars, detVars, mainVars>>

\* The loop is over: `output` is returned as it is.
RcReturn ==
    /\ ~rc_done
    /\ rc_pos = Len(contents)
    /\ rc_done' = TRUE
    /\ UNCHANGED <<contents, rc_pos, rc_state, rc_output, tkVars, detVars, mainVars>>

RcNext == RcChar \/ RcReturn

\* -------------------------------------------------------------- tokenize
Whitespace == {" ", "\t", "\n", "\r"}

PunctuationChars ==
    {"*", "/", "+", "-", "%", "\\", ";", ",", "@", ":", "=", "{", "}", "<", ">",
     "!", "~", "?", "&", "|", "^", "\"", "'"}

\* The match of tokenize: the token pushed after the pending run was
\* flushed, "Whitespace" for a flush alone, "Word" for the default arm.
TokenizeArm(character) ==
    CASE character \in Whitespace       -> "Whitespace"
      [] character = "."                -> "Dot"
      [] character = "("                -> "OpenParen"
      [] character = ")"                -> "CloseParen"
      [] character = "["                -> "OpenBracket"
      [] character = "]"                -> "CloseBracket"
      [] character \in PunctuationChars -> "Punctuation"
      [] OTHER                          -> "Word"

IsWordChar(character) == TokenizeArm(character) = "Word"

\* push!(Token::String) without token.clear().
PushString_NoClear(tk) ==
    [token  |-> tk.token,
     output |-> IF tk.token # <<>> THEN Append(tk.output, "String") ELSE tk.output]

\* push!(Token::String): a String token if the pending run is not empty;
\* the run is cleared.
PushString(tk) ==
    [token  |-> <<>>,
     output |-> IF tk.token # <<>> THEN Append(tk.output, "String") ELSE tk.output]

\* The locals of tokenize before the loop.
TkStart == [token |-> <<>>, output |-> <<>>]

\* One iteration of the for loop on the locals tk = [token, output].
TkIterate(tk, character) ==
    LET arm == TokenizeArm(character)
    IN  CASE arm = "Word"       -> [tk EXCEPT !.token = Append(@, character)]
          [] arm = "Whitespace" -> PushString(tk)
          [] OTHER              -> [PushString(tk) EXCEPT !.output = Append(@, arm)]

\* What follows the loop before `output` is returned: nothing.
TkAfterLoop(tk) == tk

RECURSIVE TkRun(_)
TkRun(s) ==
    IF s = <<>> THEN TkStart
    ELSE TkIterate(TkRun(Prefix(s, Len(s) - 1)), s[Len(s)])

tokenize(s) == TkAfterLoop(TkRun(s)).output

\* One character of every class of the match.
TkAlphabet == {" ", ".", "(", ")", "[", "]", ";", "a"}

TkIdle ==
    /\ tk_contents = <<>>
    /\ tk_pos = 0
    /\ token = TkStart.token
    /\ tk_output = TkStart.output
    /\ tk_done = TRUE

TkBegin ==
    /\ tk_contents \in SeqsUpTo(TkAlphabet, MaxText)
    /\ tk_pos = 0
    /\ token = TkStart.token
    /\ tk_output = TkStart.output
    /\ tk_done = FALSE

\* The for loop reads the next character.
TkChar ==
    /\ ~tk_done
    /\ tk_pos < Len(tk_contents)
    /\ LET tk == TkIterate([token |-> token, output |-> tk_output], tk_contents[tk_pos + 1])
       IN  /\ token' = tk.token
           /\ tk_output' = tk.output
    /\ tk_pos' = tk_pos + 1
    /\ UNCHANGED <<tk_contents, tk_done, rcVars, detVars, mainVars>>

\* The loop is over: `output` is returned.
TkReturn ==
    /\ ~tk_done
    /\ tk_pos = Len(tk_contents)
    /\ LET tk == TkAfterLoop([token |-> token, output |-> tk_output])
       IN  /\ token' = tk.token
           /\ tk_output' = tk.output
    /\ tk_done' = TRUE
    /\ UNCHANGED <<tk_contents, tk_pos, rcVars, detVars, mainVars>>

TkNext == TkChar \/ TkReturn

\* ------------------------------------- sloppy_method_chain_detection_rec
Token == {"Punctuation", "String", "Dot", "OpenParen", "CloseParen",
          "OpenBracket", "CloseBracket"}

DetStates == {"Start", "Potential", "ParenEnd", "Chain"}

\* The three shapes of a match arm: recurse!() followed by a state
\* assignment and possibly method_found!(); stop!(); a state assignment
\* possibly followed by chain_complete!().
Recurse(next, found) ==
    [act |-> "recurse", state |-> next, method_found |-> found, chain_complete |-> FALSE]
Stop(state) ==
    [act |-> "stop", state |-> state, method_found |-> FALSE, chain_complete |-> TRUE]
Move(next, complete) ==
    [act |-> "move", state |-> next, method_found |-> FALSE, chain_complete |-> complete]

\* No arm is waiting for a nested invocation.
NoArm == Move("Start", FALSE)

\* StartArm that ignores a closer like any other token.
StartArm_CloserIgnored(tok) ==
    CASE tok = "OpenParen"    -> Recurse("Start", FALSE)
      [] tok = "OpenBracket"  -> Recurse("Start", FALSE)
      [] tok = "String"       -> Move("Potential", FALSE)
      [] OTHER                -> Move("Start", FALSE)

\* The arms of the match, by state.
StartArm(tok) ==
    CASE tok = "OpenParen"    -> Recurse("Start", FALSE)
      [] tok = "OpenBracket"  -> Recurse("Start", FALSE)
      [] tok = "CloseParen"   -> Stop("Start")
      [] tok = "CloseBracket" -> Stop("Start")
      [] tok = "String"       -> Move("Potential", FALSE)
      [] OTHER                -> Move("Start", FALSE)

\* PotentialArm in which a dot after a name ends the chain.
PotentialArm_DotBreaks(tok) ==
    CASE tok = "OpenParen"    -> Recurse("ParenEnd", TRUE)
      [] tok = "OpenBracket"  -> Recurse("ParenEnd", FALSE)
      [] tok = "CloseParen"   -> Stop("Potential")
      [] tok = "CloseBracket" -> Stop("Potential")
      [] OTHER                -> Move("Start", TRUE)

\* PotentialArm without its closer arms.
PotentialArm_CloserIgnored(tok) ==
    CASE tok = "OpenParen"    -> Recurse("ParenEnd", TRUE)
      [] tok = "OpenBracket"  -> Recurse("ParenEnd", FALSE)
      [] tok = "Dot"          -> Move("Chain", FALSE)
      [] OTHER                -> Move("Start", TRUE)

\* PotentialArm that counts an index like a call.
PotentialArm_IndexCounts(tok) ==
    CASE tok = "OpenParen"    -> Recurse("ParenEnd", TRUE)
      [] tok = "OpenBracket"  -> Recurse("ParenEnd", TRUE)
      [] tok = "CloseParen"   -> Stop("Potential")
      [] tok = "CloseBracket" -> Stop("Potential")
      [] tok = "Dot"          -> Move("Chain", FALSE)
      [] OTHER                -> Move("Start", TRUE)

PotentialArm(tok) ==
    CASE tok = "OpenParen"    -> Recurse("ParenEnd", TRUE)
      [] tok = "OpenBracket"  -> Recurse("ParenEnd", FALSE)
      [] tok = "CloseParen"   -> Stop("Potential")
      [] tok = "CloseBracket" -> Stop("Potential")
      [] tok = "Dot"          -> Move("Chain", FALSE)
      [] OTHER                -> Move("Start", TRUE)

\* ParenEndArm without its closer arms.
ParenEndArm_CloserIgnored(tok) ==
    CASE tok = "OpenParen"    -> Recurse("Start", FALSE)
      [] tok = "OpenBracket"  -> Recurse("Start", FALSE)
      [] tok = "Dot"          -> Move("Chain", FALSE)
      [] OTHER                -> Move("Start", TRUE)

\* ParenEndArm whose default arm forgets chain_complete!().
ParenEndArm_NoComplete(tok) ==
    CASE tok = "OpenParen"    -> Recurse("Start", FALSE)
      [] tok = "OpenBracket"  -> Recurse("Start", FALSE)
      [] tok = "CloseParen"   -> Stop("ParenEnd")
      [] tok = "CloseBracket" -> Stop("ParenEnd")
      [] tok = "Dot"          -> Move("Chain", FALSE)
      [] OTHER                -> Move("Start", FALSE)

ParenEndArm(tok) ==
    CASE tok = "OpenParen"    -> Recurse("Start", FALSE)
      [] tok = "OpenBracket"  -> Recurse("Start", FALSE)
      [] tok = "CloseParen"   -> Stop("ParenEnd")
      [] tok = "CloseBracket" -> Stop("ParenEnd")
      [] tok = "Dot"          -> Move("Chain", FALSE)
      [] OTHER                -> Move("Start", TRUE)

\* ChainArm in which only CloseParen ends the scope.
ChainArm_BracketNotCloser(tok) ==
    CASE tok = "OpenParen"    -> Recurse("Start", FALSE)
      [] tok = "OpenBracket"  -> Recurse("Start", FALSE)
      [] tok = "CloseParen"   -> Stop("Chain")
      [] tok = "String"       -> Move("Potential", FALSE)
      [] OTHER                -> Move("Start", TRUE)

\* ChainArm that completes the chain on the name after a dot.
ChainArm_NameCompletes(tok) ==
    CASE tok = "OpenParen"    -> Recurse("Start", FALSE)
      [] tok = "OpenBracket"  -> Recurse("Start", FALSE)
      [] tok = "CloseParen"   -> Stop("Chain")
      [] tok = "CloseBracket" -> Stop("Chain")
      [] tok = "String"       -> Move("Potential", TRUE)
      [] OTHER                -> Move("Start", TRUE)

ChainArm(tok) ==
    CASE tok = "OpenParen"    -> Recurse("Start", FALSE)
      [] tok = "OpenBracket"  -> Recurse("Start", FALSE)
      [] tok = "CloseParen"   -> Stop("Chain")
      [] tok = "CloseBracket" -> Stop("Chain")
      [] tok = "String"       -> Move("Potential", FALSE)
      [] OTHER                -> Move("Start", TRUE)

\* match (&state, token)
DetArm(state, tok) ==
    CASE state = "Start"     -> StartArm(tok)
      [] state = "Potential" -> PotentialArm(tok)
      [] state = "ParenEnd"  -> ParenEndArm(tok)
      [] state = "Chain"     -> ChainArm(tok)

\* The locals of a fresh invocation; `pending` is the arm whose recurse!()
\* is waiting for a nested invocation to return.
NewFrame == [state |-> "Start", counter |-> 0, counters |-> <<>>, pending |-> NoArm]

\* method_found!()
method_found(frame) == [frame EXCEPT !.counter = @ + 1]

\* chain_complete!() without its test of the counter.
chain_complete_Unguarded(frame) ==
    [frame EXCEPT !.counters = Append(@, frame.counter), !.counter = 0]

\* chain_complete!()
chain_complete(frame) ==
    IF frame.counter # 0
    THEN [frame EXCEPT !.counters = Append(@, frame.counter), !.counter = 0]
    ELSE frame

\* stop!() that returns without chain_complete!().
stop_NoComplete(frame) == frame

\* stop!(): chain_complete!() and then `return counters`.
stop(frame) == chain_complete(frame)

\* The end of the function without its chain_complete!().
end_of_tokens_NoComplete(frame) == frame

\* The end of the function, reached when pop_front() yields None.
end_of_tokens(frame) == chain_complete(frame)

\* recurse!() that puts recursion_result in front of the list.
recurse_Prepend(frame, recursion_result) ==
    LET extended == [frame EXCEPT !.counters = recursion_result \o @,
                                  !.state = frame.pending.state,
                                  !.pending = NoArm]
    IN  IF frame.pending.method_found THEN method_found(extended) ELSE extended

\* recurse!() that drops the counter when the arm counts no call.
recurse_ResetCounter(frame, recursion_result) ==
    LET extended == [frame EXCEPT !.counters = @ \o recursion_result,
                                  !.state = frame.pending.state,
                                  !.pending = NoArm]
    IN  IF frame.pending.method_found THEN method_found(extended)
        ELSE [extended EXCEPT !.counter = 0]

\* recurse!() receives recursion_result; the rest of the waiting arm runs.
recurse(frame, recursion_result) ==
    LET extended == [frame EXCEPT !.counters = @ \o recursion_result,
                                  !.state = frame.pending.state,
                                  !.pending = NoArm]
    IN  IF frame.pending.method_found THEN method_found(extended) ELSE extended

\* ------------------------------------------------ inputs of the detector
\* name ( )
Call == <<"String", "OpenParen", "CloseParen">>

\* n calls joined by dots (tests test_chain1..3).
RECURSIVE FlatChain(_)
FlatChain(n) ==
    IF n <= 1 THEN Call ELSE FlatChain(n - 1) \o <<"Dot">> \o Call

\* Two flat chains separated by a Punctuation token (test_chain5).
TwoStatements(m, n) == FlatChain(m) \o <<"Punctuation">> \o FlatChain(n)

\* Segments, each a call or a bare property, joined by dots (test_chain4).
SegmentKinds == {"call", "property"}
Segment(kind) == IF kind = "call" THEN Call ELSE <<"String">>
RECURSIVE SegmentChain(_)
SegmentChain(kinds) ==
    IF Len(kinds) = 1 THEN Segment(kinds[1])
    ELSE SegmentChain(Prefix(kinds, Len(kinds) - 1)) \o <<"Dot">> \o Segment(kinds[Len(kinds)])
SegmentLists == UNION {[1..k -> SegmentKinds] : k \in 1..MaxSegments}
CallSegments(kinds) == Cardinality({i \in 1..Len(kinds) : kinds[i] = "call"})

\* k single calls separated by Punctuation tokens: an argument list.
RECURSIVE Arguments(_)
Arguments(k) ==
    IF k = 0 THEN <<>>
    ELSE IF k = 1 THEN Call
    ELSE Arguments(k - 1) \o <<"Punctuation">> \o Call

\* A flat chain of m calls whose first call has k argument calls (test_chain6).
NestedChain(k, m) ==
    <<"String", "OpenParen">> \o Arguments(k) \o <<"CloseParen">>
        \o (IF m > 1 THEN <<"Dot">> \o FlatChain(m - 1) ELSE <<>>)

Openers == {"OpenParen", "OpenBracket"}
Closers == {"CloseParen", "CloseBracket"}

\* An optional flat chain of a calls and a Punctuation token, then a flat
\* chain of c calls whose first call has a flat chain of b calls as its
\* argument (test_chain7).
OrderedChains(a, b, c) ==
    (IF a > 0 THEN FlatChain(a) \o <<"Punctuation">> ELSE <<>>)
        \o <<"String", "OpenParen">> \o FlatChain(b) \o <<"CloseParen">>
        \o (IF c > 1 THEN <<"Dot">> \o FlatChain(c - 1) ELSE <<>>)

\* A flat chain of n calls immediately followed by an empty scope.
ScopeAfterChain(n, open, close) == FlatChain(n) \o <<open, close>>

\* A call immediately followed by an empty scope, a separator and a call.
CallAfterScope(open, sep) == ScopeAfterChain(1, open, "CloseParen") \o <<sep>> \o Call

\* Segments that are calls, bare properties or indexed names `name [ .. ]`,
\* joined by dots; the index contents are balanced and hold no call.
IndexedKinds == {"call", "property", "index"}
IndexContents == {<<>>, <<"String">>, <<"String", "Dot", "String">>,
                  <<"String", "OpenBracket", "String", "CloseBracket">>}
IndexedSegment(kind, index) ==
    IF kind = "index" THEN <<"String", "OpenBracket">> \o index \o <<"CloseBracket">>
    ELSE Segment(kind)
RECURSIVE IndexedChain(_, _)
IndexedChain(kinds, index) ==
    IF Len(kinds) = 1 THEN IndexedSegment(kinds[1], index)
    ELSE IndexedChain(Prefix(kinds, Len(kinds) - 1), index)
             \o <<"Dot">> \o IndexedSegment(kinds[Len(kinds)], index)
IndexedLists == UNION {[1..k -> IndexedKinds] : k \in 1..MaxSegments}

DetInputs ==
    SeqsUpTo(Token, MaxTokens)
    \cup {FlatChain(n) : n \in 1..MaxCalls}
    \cup {TwoStatements(m, n) : m \in 1..MaxCalls, n \in 1..MaxCalls}
    \cup {SegmentChain(kinds) : kinds \in SegmentLists}
    \cup {NestedChain(k, m) : k \in 0..MaxArgs, m \in 1..MaxCalls}
    \cup {OrderedChains(a, b, c) : a \in 0..MaxCalls, b \in 1..MaxCalls, c \in 1..MaxCalls}
    \cup {ScopeAfterChain(n, o, c) : n \in 1..MaxCalls, o \in Openers, c \in Closers}
    \cup {CallAfterScope(o, sep) : o \in Openers, sep \in {"Punctuation", "Dot"}}
    \cup {IndexedChain(kinds, index) : kinds \in IndexedLists, index \in IndexContents}

DetIdle ==
    /\ input = <<>>
    /\ tokens = <<>>
    /\ stack = <<>>
    /\ result = <<>>
    /\ det_done = TRUE

\* sloppy_method_chain_detection: the vector becomes the queue and the
\* top-level invocation starts.
DetBegin ==
    /\ input \in DetInputs
    /\ tokens = input
    /\ stack = <<NewFrame>>
    /\ result = <<>>
    /\ det_done = FALSE

Depth == Len(stack)
Running == stack[Depth]

\* `return counters` of the running invocation: the top-level one hands the
\* list to its caller, a nested one to the recurse!() that is waiting.
ReturnCounters(recursion_result) ==
    IF Depth = 1
    THEN /\ result' = recursion_result
         /\ det_done' = TRUE
         /\ stack' = <<>>
    ELSE /\ stack' = [Prefix(stack, Depth - 1) EXCEPT
                         ![Depth - 1] = recurse(@, recursion_result)]
         /\ UNCHANGED <<result, det_done>>

\* A token is popped and its arm calls recurse!(): a nested invocation starts.
DetRecurse ==
    /\ ~det_done
    /\ tokens # <<>>
    /\ LET arm == DetArm(Running.state, Head(tokens))
       IN  /\ arm.act = "recurse"
           /\ stack' = Append([stack EXCEPT ![Depth].pending = arm], NewFrame)
    /\ tokens' = Tail(tokens)
    /\ UNCHANGED <<input, result, det_done, rcVars, tkVars, mainVars>>

\* A token is popped and its arm calls stop!(): the running invocation returns.
DetStop ==
    /\ ~det_done
    /\ tokens # <<>>
    /\ DetArm(Running.state, Head(tokens)).act = "stop"
    /\ ReturnCounters(stop(Running).counters)
    /\ tokens' = Tail(tokens)
    /\ UNCHANGED <<input, rcVars, tkVars, mainVars>>

\* A token is popped and its arm assigns the state, with or without
\* chain_complete!().
DetMove ==
    /\ ~det_done
    /\ tokens # <<>>
    /\ LET arm == DetArm(Running.state, Head(tokens))
           moved == [Running EXCEPT !.state = arm.state]
       IN  /\ arm.act = "move"
           /\ stack' = [stack EXCEPT ![Depth] =
                           IF arm.chain_complete THEN chain_complete(moved) ELSE moved]
    /\ tokens' = Tail(tokens)
    /\ UNCHANGED <<input, result, det_done, rcVars, tkVars, mainVars>>

\* pop_front() yields None: the loop ends, chain_complete!(), return.
DetExhausted ==
    /\ ~det_done
    /\ tokens = <<>>
    /\ ReturnCounters(end_of_tokens(Running).counters)
    /\ UNCHANGED <<input, tokens, rcVars, tkVars, mainVars>>

DetNext == DetRecurse \/ DetStop \/ DetMove \/ DetExhausted

\* ------------------------------------------------- method_chain_counts
\* sloppy_method_chain_detection_rec as the recursive function it is: the
\* loop of one invocation on its locals `frame` and the queue `toks`; the
\* value is the returned list and what is left of the queue.
RECURSIVE DetRec(_, _)
DetRec(frame, toks) ==
    IF toks = <<>>
    THEN [counters |-> end_of_tokens(frame).counters, tokens |-> <<>>]
    ELSE LET arm == DetArm(frame.state, Head(toks))
         IN  CASE arm.act = "stop" ->
                    [counters |-> stop(frame).counters, tokens |-> Tail(toks)]
               [] arm.act = "recurse" ->
                    LET nested == DetRec(NewFrame, Tail(toks))
                    IN  DetRec(recurse([frame EXCEPT !.pending = arm], nested.counters),
                               nested.tokens)
               [] OTHER ->
                    LET moved == [frame EXCEPT !.state = arm.state]
                    IN  DetRec(IF arm.chain_complete THEN chain_complete(moved) ELSE moved,
                               Tail(toks))

\* impl MethodChaining for &str: strip, tokenize, detect.
method_chain_counts(text) ==
    DetRec(NewFrame, tokenize(remove_comments(text))).counters

\* HistogramAdd with or_insert(1).
HistogramAdd_InsertOne(map, chain_length) ==
    LET inserted == IF chain_length \in DOMAIN map THEN map
                    ELSE map @@ (chain_length :> 1)
    IN  [inserted EXCEPT ![chain_length] = @ + 1]

\* *accumulator.entry(chain_length).or_insert(0) += 1
HistogramAdd(map, chain_length) ==
    LET inserted == IF chain_length \in DOMAIN map THEN map
                    ELSE map @@ (chain_length :> 0)
    IN  [inserted EXCEPT ![chain_length] = @ + 1]

\* fold(map, ...) over a list of chain lengths.
RECURSIVE HistogramFold(_, _)
HistogramFold(map, lengths) ==
    IF lengths = <<>> THEN map
    ELSE HistogramFold(HistogramAdd(map, Head(lengths)), Tail(lengths))

\* BTreeMap::new()
EmptyHistogram == <<>>

\* FoldFile that starts from an empty map for every file.
FoldFile_Fresh(map, string) == HistogramFold(EmptyHistogram, method_chain_counts(string))

\* The chain lengths of one file go through flat_map into the fold.
FoldFile(map, string) == HistogramFold(map, method_chain_counts(string))

\* MethodChaining::method_chain_histogram
method_chain_histogram(text) == HistogramFold(EmptyHistogram, method_chain_counts(text))

\* ------------------------------------------- main, process_project_dir
\* Texts of .java files: `a().a()` and `a();a()`.
JavaTexts == {<<"a", "(", ")", ".", "a", "(", ")">>,
              <<"a", "(", ")", ";", "a", "(", ")">>}

\* What the lossy decoding of a file with an invalid byte would be: `a()`
\* preceded by the replacement character.
LossyText == <<"U+FFFD", "a", "(", ")">>

\* The entries a project directory tree can hold: readable .java files, a
\* .java file that cannot be read, a .java file whose bytes are not valid
\* UTF-8, a file with another extension, a subdirectory that cannot be read.
DirEntries ==
    {[type |-> "file", extension |-> "java", read |-> "ok", text |-> t] : t \in JavaTexts}
    \cup {[type |-> "file", extension |-> "java", read |-> "error", text |-> <<>>],
          [type |-> "file", extension |-> "java", read |-> "invalid_data", text |-> LossyText],
          [type |-> "file", extension |-> "txt", read |-> "ok", text |-> LossyText],
          [type |-> "dir", extension |-> "", read |-> "error", text |-> <<>>]}

\* The directories found in config.project_dir, numbered in read_dir order.
Projects == 1..MaxProjects

\* The trees: entries in listing order, each in the tree of one project.
Trees == SeqsUpTo([project : Projects, entry : DirEntries], MaxEntries)

RECURSIVE EntriesOf(_, _)
EntriesOf(p, t) ==
    IF t = <<>> THEN <<>>
    ELSE (IF t[1].project = p THEN <<t[1].entry>> ELSE <<>>) \o EntriesOf(p, Tail(t))

\* read_dir_all fails when a directory of the tree cannot be read.
ReadDirFails(entries) ==
    \E i \in 1..Len(entries) : entries[i].type = "dir" /\ entries[i].read = "error"

IsJava(entry) == entry.type = "file" /\ entry.extension = "java"

\* filter(|path| extension == "java")
JavaPaths(entries) == SelectSeq(entries, IsJava)

\* read_to_string whose error is replaced by an empty string.
ReadToString_OrDefault(entry) ==
    [ok |-> TRUE, string |-> IF entry.read = "ok" THEN entry.text ELSE <<>>]

\* std::fs::read_to_string: Err on an I/O error and on bytes that are not
\* valid UTF-8, which expect() turns into a panic.
ReadToString(entry) ==
    IF entry.read = "ok" THEN [ok |-> TRUE, string |-> entry.text]
    ELSE [ok |-> FALSE, string |-> <<>>]

\* The keys of a histogram in ascending order: into_iter().sorted().
RECURSIVE SortedKeys(_)
SortedKeys(keys) ==
    IF keys = {} THEN <<>>
    ELSE LET least == CHOOSE k \in keys : \A j \in keys : k <= j
         IN  <<least>> \o SortedKeys(keys \ {least})

\* The rows left in ascending order.
Rev_Missing(s) == s

\* .rev()
Rev(s) == [i \in 1..Len(s) |-> s[Len(s) + 1 - i]]

\* The rows of a project: sorted().rev().map(..).collect().
HistogramRows(project_name, map) ==
    LET chains == Rev(SortedKeys(DOMAIN map))
    IN  [i \in 1..Len(chains) |->
            [project |-> project_name, chain_length |-> chains[i],
             frequency |-> map[chains[i]]]]

Header == "project, chain length, frequency"

MainIdle ==
    /\ tree = <<>>
    /\ root_readable = TRUE
    /\ m_pc = "done"
    /\ project = 0
    /\ java_paths = <<>>
    /\ accumulator = EmptyHistogram
    /\ histogram = <<>>
    /\ file = <<>>

MainBegin ==
    /\ tree \in Trees
    /\ root_readable \in BOOLEAN
    /\ m_pc = "main"
    /\ project = 0
    /\ java_paths = <<>>
    /\ accumulator = EmptyHistogram
    /\ histogram = <<>>
    /\ file = <<>>

\* main up to the for loop: the project directories are listed, the CSV
\* file is created and the header written.
MainStart ==
    /\ m_pc = "main"
    /\ IF ~root_readable
       THEN /\ m_pc' = "panic"
            /\ UNCHANGED <<project, file>>
       ELSE /\ file' = <<Header>>
            /\ project' = 1
            /\ m_pc' = "list"
    /\ UNCHANGED <<tree, root_readable, java_paths, accumulator, histogram,
                   rcVars, tkVars, detVars>>

\* process_project_dir up to the fold: read_dir_all and the filter.
ListProject ==
    /\ m_pc = "list"
    /\ LET entries == EntriesOf(project, tree)
       IN  IF ReadDirFails(entries)
           THEN /\ m_pc' = "panic"
                /\ UNCHANGED <<java_paths, accumulator>>
           ELSE /\ java_paths' = JavaPaths(entries)
                /\ accumulator' = EmptyHistogram
                /\ m_pc' = "read"
    /\ UNCHANGED <<tree, root_readable, project, histogram, file,
                   rcVars, tkVars, detVars>>

\* The fold pulls the next path through flat_map: the file is read, its
\* chain lengths are computed and folded into the accumulator.
ReadFile ==
    /\ m_pc = "read"
    /\ java_paths # <<>>
    /\ LET contents_read == ReadToString(Head(java_paths))
       IN  IF ~contents_read.ok
           THEN /\ m_pc' = "panic"
                /\ UNCHANGED <<java_paths, accumulator>>
           ELSE /\ accumulator' = FoldFile(accumulator, contents_read.string)
                /\ java_paths' = Tail(java_paths)
                /\ UNCHANGED m_pc
    /\ UNCHANGED <<tree, root_readable, project, histogram, file,
                   rcVars, tkVars, detVars>>

\* process_project_dir returns; main sorts the histogram into rows.
CollectRows ==
    /\ m_pc = "read"
    /\ java_paths = <<>>
    /\ histogram' = HistogramRows(project, accumulator)
    /\ m_pc' = "write"
    /\ UNCHANGED <<tree, root_readable, project, java_paths, accumulator, file,
                   rcVars, tkVars, detVars>>

\* writeln! of the next row.
WriteRow ==
    /\ m_pc = "write"
    /\ histogram # <<>>
    /\ file' = Append(file, Head(histogram))
    /\ histogram' = Tail(histogram)
    /\ UNCHANGED <<tree, root_readable, m_pc, project, java_paths, accumulator,
                   rcVars, tkVars, detVars>>

\* The rows are written: the for loop takes the next project or ends.
NextProject ==
    /\ m_pc = "write"
    /\ histogram = <<>>
    /\ IF project < MaxProjects
       THEN project' = project + 1 /\ m_pc' = "list"
       ELSE m_pc' = "done" /\ UNCHANGED project
    /\ UNCHANGED <<tree, root_readable, java_paths, accumulator, histogram, file,
                   rcVars, tkVars, detVars>>

MainNext ==
    MainStart \/ ListProject \/ ReadFile \/ CollectRows \/ WriteRow \/ NextProject

\* -------------------------------------------------------- specifications
\* remove_comments on every text of at most MaxChars characters.
RcInit == RcBegin /\ TkIdle /\ DetIdle /\ MainIdle
SpecRc == RcInit /\ [][RcNext]_vars

\* tokenize on every text of at most MaxText characters.
TkInit == RcIdle /\ TkBegin /\ DetIdle /\ MainIdle
SpecTk == TkInit /\ [][TkNext]_vars

\* The detector on every token vector of DetInputs.
DetInit == RcIdle /\ TkIdle /\ DetBegin /\ MainIdle
SpecDet == DetInit /\ [][DetNext]_vars

\* main on every tree of Trees.
MainInit == RcIdle /\ TkIdle /\ DetIdle /\ MainBegin
SpecMain == MainInit /\ [][MainNext]_vars

\* ================================================================ claims
\* The list of n copies of 1 followed by m.
OnesThen(n, m) == [i \in 1..(n + 1) |-> IF i <= n THEN 1 ELSE m]

\* C1: for every N >= 1, the detector run on N calls joined by single dots
\* returns exactly the one-element list <<N>>.
C1_FlatChainIsOneChain ==
    det_done => \A n \in 1..MaxCalls : input = FlatChain(n) => result = <<n>>

C1_Witness == det_done /\ input = FlatChain(3) /\ result = <<3>>

\* C2: for all m, n >= 1, the detector run on a flat chain of m calls, a
\* Punctuation token and a flat chain of n calls returns exactly <<m, n>>.
C2_StatementsNotMerged ==
    det_done => \A m \in 1..MaxCalls, n \in 1..MaxCalls :
                    input = TwoStatements(m, n) => result = <<m, n>>

C2_Witness == det_done /\ input = TwoStatements(2, 3) /\ result = <<2, 3>>

\* C3: for a dot-joined sequence of segments, each a call or a bare
\* property, the detector returns one entry equal to the number of call
\* segments when there is at least one, and the empty list otherwise.
C3_PropertiesKeepChain ==
    det_done => \A kinds \in SegmentLists :
                    input = SegmentChain(kinds) =>
                        result = IF CallSegments(kinds) >= 1
                                 THEN <<CallSegments(kinds)>> ELSE <<>>

C3_Witness ==
    /\ det_done
    /\ input = SegmentChain(<<"call", "property", "call">>)
    /\ result = <<2>>

\* C4: for all K >= 0 and M >= 1, when the first call of a flat chain of M
\* calls has K argument calls separated by Punctuation, the detector
\* returns K entries equal to 1, one per argument call, and one entry equal
\* to M for the outer chain (the argument calls first).
C4_ArgumentsAreOwnChains ==
    det_done => \A k \in 0..MaxArgs, m \in 1..MaxCalls :
                    input = NestedChain(k, m) => result = OnesThen(k, m)

C4_Witness == det_done /\ input = NestedChain(2, 2) /\ result = <<1, 1, 2>>

\* C5: for every token sequence, balanced or not, every entry of the list
\* returned by the detector, and of the list of every invocation, is an
\* integer >= 1: a chain of length 0 is never recorded.
C5_NoZeroLength ==
    /\ \A i \in 1..Len(result) : result[i] >= 1
    /\ \A d \in 1..Len(stack) :
           \A i \in 1..Len(stack[d].counters) : stack[d].counters[i] >= 1

\* An unbalanced input: a closer met with counter 0, then the end of the
\* input met twice with counter 1.
C5_Witness ==
    /\ det_done
    /\ input = <<"String", "OpenParen", "String", "OpenParen", "CloseParen">>
    /\ result = <<1, 1>>

\* ------------------------------------------------------ tokenize claims
\* The number of maximal runs of word characters of s.
WordRuns(s) ==
    Cardinality({i \in 1..Len(s) :
                    IsWordChar(s[i]) /\ (i = Len(s) \/ ~IsWordChar(s[i + 1]))})

StringTokens(out) == Cardinality({i \in 1..Len(out) : out[i] = "String"})

\* C6: for every comment-free input that ends in a non-empty run of word
\* characters, tokenize emits a final String token for that run; the number
\* of String tokens equals the number of maximal runs of word characters.
C6_FinalRunFlushed ==
    tk_done =>
        /\ (tk_contents # <<>> /\ IsWordChar(tk_contents[Len(tk_contents)]))
              => (tk_output # <<>> /\ tk_output[Len(tk_output)] = "String")
        /\ StringTokens(tk_output) = WordRuns(tk_contents)

\* ----------------------------------------------- remove_comments claims
\* s contains the character a immediately followed by b.
HasPair(s, a, b) == \E i \in 1..(Len(s) - 1) : s[i] = a /\ s[i + 1] = b

\* The locals of remove_comments once it has read the first n characters.
RcAfter(n) == RcRun(Prefix(contents, n))

\* C7: for every text that contains neither `//` nor `/*`, remove_comments
\* returns the text unchanged.
C7_CleanTextUnchanged ==
    rc_done =>
        ((~HasPair(contents, "/", "/") /\ ~HasPair(contents, "/", "*"))
            => rc_output = contents)

\* C8: every `/` that is read outside every comment and is not followed by
\* `/` or `*` (the last character of the input included) appears in the
\* returned text, right after the characters kept before it.
C8_LoneSlashKept ==
    rc_done =>
        \A i \in 1..Len(contents) :
            (/\ contents[i] = "/"
             /\ RcAfter(i - 1).state = "Basic"
             /\ (i = Len(contents) \/ contents[i + 1] \notin {"/", "*"}))
            => LET k == Len(RcAfter(i - 1).output) + 1
               IN  k <= Len(rc_output) /\ rc_output[k] = "/"

Least(S, default) == IF S = {} THEN default ELSE CHOOSE q \in S : \A r \in S : q <= r

\* contents[p] is the star of a `/*` read outside a comment.
OpensBlock(p) ==
    p >= 2 /\ contents[p] = "*" /\ RcAfter(p - 1).state = "SlashFound"

\* The first `/` after the opener whose star is at p that is immediately
\* preceded by a star other than the opener's; Len(contents) + 1 if none.
BlockCloser(p) ==
    Least({q \in (p + 2)..Len(contents) : contents[q] = "/" /\ contents[q - 1] = "*"},
          Len(contents) + 1)

\* C9: once `/*` was read outside a comment, nothing is emitted until the
\* first later `/` immediately preceded by a star other than the opener's
\* was read; the state is then Basic and the very next character is
\* treated as text.  Without such a closer nothing more is emitted.
C9_BlockCommentEndsAtFirstCloser ==
    \A p \in 1..rc_pos :
        OpensBlock(p) =>
            LET q == BlockCloser(p)
                before == RcAfter(p - 2).output
            IN  /\ rc_pos < q =>
                      /\ rc_state \in {"BlockComment", "StarFoundInComment"}
                      /\ rc_output = before
                /\ rc_pos = q => (rc_state = "Basic" /\ rc_output = before)
                /\ (rc_pos = q + 1 /\ contents[q + 1] # "/") =>
                      (rc_state = "Basic" /\ rc_output = Append(before, contents[q + 1]))
                /\ (rc_pos = q + 1 /\ contents[q + 1] = "/") =>
                      (rc_state = "SlashFound" /\ rc_output = before)

\* `/***/a`: a run of stars closes the comment and `a` is emitted.
C9_Witness ==
    /\ rc_done
    /\ contents = <<"/", "*", "*", "*", "/", "a">>
    /\ rc_output = <<"a">>

\* contents[p] is the second slash of a `//` read outside a comment.
OpensLine(p) ==
    p >= 2 /\ contents[p] = "/" /\ RcAfter(p - 1).state = "SlashFound"

\* The first `\n` or `\r` after position p; Len(contents) + 1 if none.
LineEnd(p) ==
    Least({q \in (p + 1)..Len(contents) : contents[q] \in {"\n", "\r"}},
          Len(contents) + 1)

\* C10: once `//` was read outside a comment, nothing is emitted up to and
\* including the first following `\n` or `\r`; the state is then Basic and
\* the next character is emitted right after the text that preceded `//`.
C10_LineCommentTakesTerminator ==
    \A p \in 1..rc_pos :
        OpensLine(p) =>
            LET q == LineEnd(p)
                before == RcAfter(p - 2).output
            IN  /\ rc_pos < q => (rc_state = "LineComment" /\ rc_output = before)
                /\ rc_pos = q => (rc_state = "Basic" /\ rc_output = before)
                /\ (rc_pos = q + 1 /\ contents[q + 1] # "/") =>
                      (rc_state = "Basic" /\ rc_output = Append(before, contents[q + 1]))
                /\ (rc_pos = q + 1 /\ contents[q + 1] = "/") =>
                      (rc_state = "SlashFound" /\ rc_output = before)

\* `a//a\ra`: the comment and its `\r` are gone, the two `a` are adjacent.
C10_Witness ==
    /\ rc_done
    /\ contents = <<"a", "/", "/", "a", "\r", "a">>
    /\ rc_output = <<"a", "a">>

\* The token the claim assigns to a character: none for whitespace and for
\* word characters.
ClassToken(c) ==
    CASE c = "."                -> <<"Dot">>
      [] c = "("                -> <<"OpenParen">>
      [] c = ")"                -> <<"CloseParen">>
      [] c = "["                -> <<"OpenBracket">>
      [] c = "]"                -> <<"CloseBracket">>
      [] c \in PunctuationChars -> <<"Punctuation">>
      [] OTHER                  -> <<>>

IsSeparator(c) == c \in Whitespace \/ ClassToken(c) # <<>>

\* The tokens of the `.`, `(`, `)`, `[`, `]` and punctuation characters of
\* s, in source order.
RECURSIVE ClassifiedTokens(_)
ClassifiedTokens(s) ==
    IF s = <<>> THEN <<>>
    ELSE ClassifiedTokens(Prefix(s, Len(s) - 1)) \o ClassToken(s[Len(s)])

\* The same with a String token wherever a separator directly follows a
\* word character.
RECURSIVE TokensWithRuns(_)
TokensWithRuns(s) ==
    IF s = <<>> THEN <<>>
    ELSE LET n == Len(s)
             run == IF n > 1 /\ ~IsSeparator(s[n - 1]) /\ IsSeparator(s[n])
                    THEN <<"String">> ELSE <<>>
         IN  TokensWithRuns(Prefix(s, n - 1)) \o run \o ClassToken(s[n])

NotString(t) == t # "String"

\* C11: the output of tokenize without its String tokens is the sequence of
\* the input's `.`, `(`, `)`, `[`, `]` and punctuation characters mapped to
\* their tokens, one token per character; whitespace yields no token, and a
\* String token appears only where a separator directly follows a word
\* character (never between two separators with no word character between).
C11_OneTokenPerClassifiedChar ==
    LET read == Prefix(tk_contents, tk_pos)
    IN  /\ SelectSeq(tk_output, NotString) = ClassifiedTokens(read)
        /\ tk_output = TokensWithRuns(read)

\* `a (.` : the space flushes the run, `(` and `.` are adjacent tokens.
C11_Witness ==
    /\ tk_done
    /\ tk_contents = <<"a", " ", "(", ".">>
    /\ tk_output = <<"String", "OpenParen", "Dot">>

\* -------------------------------------------------- detector claims, II
\* Decreases with every step of the detector.
DetMeasure == 2 * Len(tokens) + Len(stack)

\* C13: on every finite token sequence, unbalanced ones included, the
\* detector terminates with a list: while it has not returned a step is
\* possible, every step decreases DetMeasure, the queue is always a suffix
\* of the input of which a step removes at most the first token, and a step
\* that pops a closer ends exactly one invocation.
C13_TerminatesOnAnyInput ==
    /\ [](~det_done => ENABLED DetNext)
    /\ [](\E k \in 0..Len(input) : tokens = SubSeq(input, k + 1, Len(input)))
    /\ [](det_done => stack = <<>>)
    /\ [][/\ DetMeasure' < DetMeasure
          /\ tokens' = tokens \/ (tokens # <<>> /\ tokens' = Tail(tokens))
          /\ (tokens # <<>> /\ Head(tokens) \in Closers)
                => (tokens' = Tail(tokens) /\ Len(stack') = Len(stack) - 1)]_vars

\* `( name ] )`: a paren closed by a bracket, then an unmatched closer.
C13_Witness ==
    /\ det_done
    /\ input = <<"OpenParen", "String", "CloseBracket", "CloseParen">>
    /\ tokens = <<>>
    /\ result = <<>>

\* C18: chain lengths are returned in the order the chains complete: the
\* lengths of a nested scope come after the lengths finalized in the
\* enclosing scope before the opener and before the length of the enclosing
\* chain that is in progress when the scope is entered.
C18_CompletionOrder ==
    det_done => \A a \in 0..MaxCalls, b \in 1..MaxCalls, c \in 1..MaxCalls :
                    input = OrderedChains(a, b, c) =>
                        result = (IF a > 0 THEN <<a>> ELSE <<>>) \o <<b, c>>

\* A chain of 3 inside the first call of a chain of 2, after a chain of 1.
C18_Witness == det_done /\ input = OrderedChains(1, 3, 2) /\ result = <<1, 3, 2>>

\* C19: when a closed call is immediately followed by another scope, the
\* chain is broken: after `a ( ) ( ) ; b ( )` or `a ( ) ( ) . b ( )` no
\* returned length counts the calls of both sides.
C19_ScopeBreaksChain ==
    det_done => \A o \in Openers, sep \in {"Punctuation", "Dot"} :
                    input = CallAfterScope(o, sep) =>
                        \A i \in 1..Len(result) : result[i] <= 1

\* C20 as stated: on the ParenEnd -> opener path the count is discarded, so
\* a flat chain immediately followed by a scope yields the empty list.
C20_CountDiscarded ==
    det_done => \A n \in 1..MaxCalls, o \in Openers, c \in Closers :
                    input = ScopeAfterChain(n, o, c) => result = <<>>

\* C20 as amended: on the ParenEnd -> opener path the count is neither
\* pushed nor discarded, it stays in the counter of the invocation; a flat
\* chain of n calls immediately followed by an empty scope yields <<n>>.
C20_CountKept ==
    /\ [](det_done => \A n \in 1..MaxCalls, o \in Openers, c \in Closers :
                          input = ScopeAfterChain(n, o, c) => result = <<n>>)
    /\ [][(/\ ~det_done
           /\ tokens # <<>>
           /\ Running.state = "ParenEnd"
           /\ Head(tokens) \in Openers)
          => (/\ stack'[Depth].counter = Running.counter
              /\ stack'[Depth].counters = Running.counters)]_vars

C20_Witness ==
    /\ det_done
    /\ input = ScopeAfterChain(1, "OpenParen", "CloseParen")
    /\ result = <<1>>

\* ---------------------------------------------------------- main claims
\* The entries of project p and its .java files, in listing order.
ProjectEntries(p) == EntriesOf(p, tree)
ProjectJava(p) == JavaPaths(ProjectEntries(p))

\* The .java files of the current project that were read and folded.
FilesRead == Prefix(ProjectJava(project), Len(ProjectJava(project)) - Len(java_paths))

\* The chain lengths of a list of files, file after file.
RECURSIVE LengthsOf(_)
LengthsOf(files) ==
    IF files = <<>> THEN <<>>
    ELSE method_chain_counts(files[1].text) \o LengthsOf(Tail(files))

Occurrences(k, lengths) == Cardinality({i \in 1..Len(lengths) : lengths[i] = k})

RECURSIVE SumOver(_, _)
SumOver(map, keys) ==
    IF keys = {} THEN 0
    ELSE LET k == CHOOSE x \in keys : TRUE
         IN  map[k] + SumOver(map, keys \ {k})

\* C12: a .java file whose bytes are not valid text does not abort the run:
\* the run is never in the error state because of such a file.
C12_InvalidBytesTolerated ==
    ~(/\ m_pc = "panic"
      /\ root_readable
      /\ ~ReadDirFails(ProjectEntries(project))
      /\ java_paths # <<>>
      /\ Head(java_paths).read = "invalid_data")

\* C14: the histogram of a project counts exactly the chain lengths returned
\* for its .java files: each value is the number of occurrences of its key,
\* the values sum to the number of lengths, no value is 0, every key is >= 1.
C14_HistogramCountsLengths ==
    m_pc \in {"read", "write"} =>
        LET lengths == LengthsOf(FilesRead)
        IN  /\ \A k \in DOMAIN accumulator :
                   /\ k >= 1
                   /\ accumulator[k] >= 1
                   /\ accumulator[k] = Occurrences(k, lengths)
            /\ \A i \in 1..Len(lengths) : lengths[i] \in DOMAIN accumulator
            /\ SumOver(accumulator, DOMAIN accumulator) = Len(lengths)

\* Both texts in one project: lengths 2, 1, 1.
C14_Witness ==
    /\ m_pc = "write"
    /\ Len(ProjectJava(project)) = 2
    /\ accumulator = (1 :> 2 @@ 2 :> 1)

\* The key-wise sum of two histograms.
MergeHistograms(h1, h2) ==
    [k \in DOMAIN h1 \cup DOMAIN h2 |->
        (IF k \in DOMAIN h1 THEN h1[k] ELSE 0) + (IF k \in DOMAIN h2 THEN h2[k] ELSE 0)]

RECURSIVE SumOfFileHistograms(_)
SumOfFileHistograms(files) ==
    IF files = <<>> THEN EmptyHistogram
    ELSE MergeHistograms(method_chain_histogram(files[1].text),
                         SumOfFileHistograms(Tail(files)))

RECURSIVE FoldFiles(_, _)
FoldFiles(map, files) ==
    IF files = <<>> THEN map
    ELSE FoldFiles(HistogramFold(map, method_chain_counts(files[1].text)), Tail(files))

Orders(n) == {f \in [1..n -> 1..n] : \A i, j \in 1..n : f[i] = f[j] => i = j}

RECURSIVE TextOf(_)
TextOf(files) == IF files = <<>> THEN <<>> ELSE files[1].text \o TextOf(Tail(files))

\* C15: files are analyzed independently: the histogram of a project is the
\* key-wise sum of the histograms of its files, and folding the files in
\* any other order gives the same histogram.
C15_FilesIndependent ==
    m_pc = "write" =>
        LET files == ProjectJava(project)
        IN  /\ accumulator = SumOfFileHistograms(files)
            /\ \A f \in Orders(Len(files)) :
                   FoldFiles(EmptyHistogram, [i \in 1..Len(files) |-> files[f[i]]])
                       = accumulator

\* Two files whose concatenated text has another histogram.
C15_Witness ==
    /\ m_pc = "write"
    /\ Len(ProjectJava(project)) = 2
    /\ accumulator = (1 :> 2 @@ 2 :> 1)
    /\ accumulator # method_chain_histogram(TextOf(ProjectJava(project)))

\* Project p was processed to the end and its rows were written.
Completed(p) ==
    \/ m_pc = "done"
    \/ m_pc # "main" /\ project > p
    \/ project = p /\ m_pc = "write" /\ histogram = <<>>

Elements(s) == {s[i] : i \in 1..Len(s)}

\* C16: the header is the first line; the rows of a project are contiguous,
\* in strictly descending order of chain length, before every row of the
\* next project, and a completed project has exactly one row per distinct
\* chain length of its files.
C16_CsvOrder ==
    /\ m_pc \notin {"main", "panic"} => file # <<>>
    /\ file # <<>> => file[1] = Header
    /\ \A i \in 2..Len(file) : DOMAIN file[i] = {"project", "chain_length", "frequency"}
    /\ \A i, j \in 2..Len(file) :
           i < j =>
               /\ file[i].project <= file[j].project
               /\ file[i].project = file[j].project
                     => file[i].chain_length > file[j].chain_length
    /\ \A p \in Projects :
           Completed(p) =>
               {file[i].chain_length : i \in {j \in 2..Len(file) : file[j].project = p}}
                   = Elements(LengthsOf(ProjectJava(p)))

\* Project 1 with lengths 2 and 1, then project 2 with length 2.
C16_Witness ==
    /\ m_pc = "done"
    /\ Len(file) = 4
    /\ file[2] = [project |-> 1, chain_length |-> 2, frequency |-> 1]
    /\ file[3] = [project |-> 1, chain_length |-> 1, frequency |-> 2]
    /\ file[4] = [project |-> 2, chain_length |-> 2, frequency |-> 1]

\* Project p holds a directory or a .java file that cannot be read.
HasFsError(p) ==
    \/ ReadDirFails(ProjectEntries(p))
    \/ \E i \in 1..Len(ProjectJava(p)) : ProjectJava(p)[i].read = "error"

\* C17: a filesystem error while processing project k is fatal: the run
\* stops in the error state, from which no step is possible; no row of
\* project k or of a later project is written; rows of a project are only
\* written after all of its files were read; a project with such an error is
\* never completed.
C17_FsErrorIsFatal ==
    /\ m_pc = "panic" =>
           /\ ~ENABLED MainNext
           /\ \A i \in 2..Len(file) : file[i].project < project
    /\ ~root_readable => (m_pc \in {"main", "panic"} /\ file = <<>>)
    /\ \A i \in 2..Len(file) :
           file[i].project = project => (m_pc \in {"write", "done"} /\ java_paths = <<>>)
    /\ \A p \in Projects :
           HasFsError(p) =>
               /\ ~Completed(p)
               /\ ~(project = p /\ m_pc = "write")
               /\ \A i \in 2..Len(file) : file[i].project < p

\* Project 1 was written, project 2 failed on an unreadable file or directory.
C17_Witness ==
    /\ m_pc = "panic"
    /\ project = 2
    /\ HasFsError(2)
    /\ Len(file) = 2
    /\ file[2].project = 1

\* C21: an indexed segment is not a call and does not break a chain: in
\* state Potential an OpenBracket starts a nested invocation whose return
\* moves to ParenEnd without incrementing the counter, and for a dot-joined
\* sequence of calls, bare properties and indexed names the detector
\* returns one entry equal to the number of call segments (the empty list
\* when there is no call segment).
C21_IndexKeepsChain ==
    /\ [](det_done => \A kinds \in IndexedLists, index \in IndexContents :
                          input = IndexedChain(kinds, index) =>
                              result = IF CallSegments(kinds) >= 1
                                       THEN <<CallSegments(kinds)>> ELSE <<>>)
    /\ [][(/\ ~det_done /\ tokens # <<>> /\ Running.state = "Potential"
           /\ Head(tokens) = "OpenBracket")
          => (/\ Len(stack') = Depth + 1
              /\ stack'[Depth].pending.state = "ParenEnd"
              /\ ~stack'[Depth].pending.method_found
              /\ stack'[Depth].counter = Running.counter
              /\ stack'[Depth].counters = Running.counters)]_vars
    /\ [][(/\ ~det_done /\ Depth >= 2 /\ Len(stack') = Depth - 1
           /\ stack[Depth - 1].pending = Recurse("ParenEnd", FALSE))
          => (/\ stack'[Depth - 1].state = "ParenEnd"
              /\ stack'[Depth - 1].counter = stack[Depth - 1].counter)]_vars

\* call . index . call with a non-empty index.
C21_Witness ==
    /\ det_done
    /\ input = IndexedChain(<<"call", "index", "call">>, <<"String", "Dot", "String">>)
    /\ result = <<2>>

\* The openers still open after the tokens of s, innermost last; <<"none">>
\* once a closer had no opener of its kind to close.
RECURSIVE OpenScopes(_)
OpenScopes(s) ==
    IF s = <<>> THEN <<>>
    ELSE LET before == OpenScopes(Prefix(s, Len(s) - 1))
             tok == s[Len(s)]
         IN  IF before = <<"none">> THEN before
             ELSE IF tok \in Openers THEN Append(before, tok)
             ELSE IF tok \in Closers
                  THEN IF /\ before # <<>>
                          /\ before[Len(before)] =
                                 (IF tok = "CloseParen" THEN "OpenParen" ELSE "OpenBracket")
                       THEN Prefix(before, Len(before) - 1)
                       ELSE <<"none">>
             ELSE before

Balanced(s) == OpenScopes(s) = <<>>

\* The positions at which a String token is immediately followed by OpenParen.
CallSites(s) == {i \in 1..(Len(s) - 1) : s[i] = "String" /\ s[i + 1] = "OpenParen"}

RECURSIVE SumSeq(_)
SumSeq(s) == IF s = <<>> THEN 0 ELSE Head(s) + SumSeq(Tail(s))

\* C22: for every balanced token sequence the chain lengths returned by the
\* detector sum to the number of positions at which a String token is
\* immediately followed by an OpenParen token.
C22_EveryCallCounted ==
    (det_done /\ Balanced(input)) => SumSeq(result) = Cardinality(CallSites(input))

\* C23: the top-level invocation returns only when the token sequence is
\* exhausted: when the detector has returned, the token queue is empty.
C23_ReturnsWhenExhausted == det_done => tokens = <<>>

\* Openers minus closers among the tokens of s, of either kind.
Nesting(s) ==
    Cardinality({i \in 1..Len(s) : s[i] \in Openers})
        - Cardinality({i \in 1..Len(s) : s[i] \in Closers})

\* The positions of the closers read at nesting depth 0.
UnmatchedClosers(s) ==
    {i \in 1..Len(s) : s[i] \in Closers /\ Nesting(Prefix(s, i - 1)) = 0}

\* The number of tokens the detector pops: up to and including the first
\* closer at depth 0, all of them when there is none.
Consumed(s) == Least(UnmatchedClosers(s), Len(s))

\* C23 (amended): the top-level invocation returns when the queue is
\* exhausted or when it pops a closer at nesting depth 0, whichever comes
\* first; the tokens after that closer stay in the queue unexamined and the
\* returned list is the one of the tokens before them.
C23_ReturnsAtFirstUnmatchedCloser ==
    det_done =>
        /\ tokens = SubSeq(input, Consumed(input) + 1, Len(input))
        /\ result = DetRec(NewFrame, Prefix(input, Consumed(input))).counters

\* A call, an unmatched closer, and a name that is never read.
C23_Witness ==
    /\ det_done
    /\ input = <<"String", "OpenParen", "CloseParen", "CloseParen", "String">>
    /\ tokens = <<"String">>
    /\ result = <<1>>

\* The tokens popped from the queue so far.
ConsumedPrefix == Prefix(input, Len(input) - Len(tokens))

\* The maximal nesting depth of s: the largest excess of openers over
\* closers after any number of its tokens.
MaxNesting(s) ==
    CHOOSE d \in 0..Len(s) :
        /\ \E k \in 0..Len(s) : Nesting(Prefix(s, k)) = d
        /\ \A k \in 0..Len(s) : Nesting(Prefix(s, k)) <= d

\* C24: the number of active invocations is at most 1 + (openers popped -
\* closers popped), and equal to it while tokens remain, hence at most
\* 1 + the maximal nesting depth of the input; each popped opener starts
\* exactly one nested invocation, each popped closer ends exactly one, and
\* no other token changes the number.
C24_DepthTracksNesting ==
    /\ [](Len(stack) <= 1 + Nesting(ConsumedPrefix))
    /\ []((~det_done /\ tokens # <<>>) => Len(stack) = 1 + Nesting(ConsumedPrefix))
    /\ [](Len(stack) <= 1 + MaxNesting(input))
    /\ [][(~det_done /\ tokens # <<>>) =>
             Len(stack') = CASE Head(tokens) \in Openers -> Len(stack) + 1
                             [] Head(tokens) \in Closers -> Len(stack) - 1
                             [] OTHER -> Len(stack)]_vars

\* Two scopes are open and tokens remain.
C24_Witness ==
    /\ ~det_done
    /\ tokens # <<>>
    /\ Len(stack) = 3
    /\ Nesting(ConsumedPrefix) = 2

\* The chain lengths of a text when the tokenizer also pushes the word run
\* that is pending at the end of the input.
CountsWithFinalRun(text) ==
    DetRec(NewFrame, PushString(TkRun(remove_comments(text))).output).counters

\* For every text the chain lengths are the same with and without a String
\* token for the word run that ends the input.
FinalRunIrrelevant ==
    \A text \in SeqsUpTo(TkAlphabet, MaxText) :
        method_chain_counts(text) = CountsWithFinalRun(text)

\* C25: the detector returns the same list on a token sequence and on that
\* sequence followed by one extra String token; hence method_chain_counts
\* is the same whether or not the tokenizer emits a String token for a word
\* run that ends the input.
C25_TrailingStringIrrelevant ==
    /\ det_done => result = DetRec(NewFrame, Append(input, "String")).counters
    /\ FinalRunIrrelevant

\* A chain that the end of the input completes, a name after it or not.
C25_Witness ==
    /\ det_done
    /\ input = <<"String", "OpenParen", "CloseParen", "Dot">>
    /\ result = <<1>>
    /\ method_chain_counts(<<"a", "(", ")", ".", "a">>) = <<1>>
    /\ tokenize(<<"a", "(", ")", ".", "a">>) = input

\* C26: every `/` in the output of remove_comments is immediately followed
\* by a character that is neither `/` nor `*`, at every point of the run:
\* the returned text contains neither `//` nor `/*`, does not end with `/`,
\* and remove_comments returns it unchanged.
C26_Idempotent ==
    /\ \A i \in 1..Len(rc_output) :
           rc_output[i] = "/" =>
               (i < Len(rc_output) /\ rc_output[i + 1] \notin {"/", "*"})
    /\ rc_done =>
           /\ ~HasPair(rc_output, "/", "/")
           /\ ~HasPair(rc_output, "/", "*")
           /\ remove_comments(rc_output) = rc_output

\* A text with a block comment and a `/` that is kept.
C26_Witness ==
    /\ rc_done
    /\ HasPair(contents, "/", "*")
    /\ \E i \in 1..Len(rc_output) : rc_output[i] = "/"
    /\ rc_output # contents
    /\ remove_comments(rc_output) = rc_output

\* The other kind of closer.
OtherCloser(tok) == IF tok = "CloseParen" THEN "CloseBracket" ELSE "CloseParen"

\* s with the closer at position i, or every closer, replaced by the other kind.
SwapCloserAt(s, i) == [s EXCEPT ![i] = OtherCloser(@)]
SwapClosers(s) == [i \in 1..Len(s) |-> IF s[i] \in Closers THEN OtherCloser(s[i]) ELSE s[i]]

\* What an arm does, whatever the state it stops in.
ArmEffect(state, tok) ==
    LET arm == DetArm(state, tok)
    IN  <<arm.act, arm.method_found, arm.chain_complete,
          IF arm.act = "stop" THEN "Start" ELSE arm.state>>

\* C27: the detector does not distinguish the two kinds of closer: every
\* state has the same arm for both, and replacing the closer at any
\* position, or all closers, by the other kind leaves the returned list
\* unchanged; the two kinds of opener have the same arm in every state but
\* Potential, where they differ.
C27_ClosersInterchangeable ==
    /\ \A s \in DetStates :
           /\ ArmEffect(s, "CloseParen") = ArmEffect(s, "CloseBracket")
           /\ ArmEffect(s, "CloseParen")[1] = "stop"
           /\ (ArmEffect(s, "OpenParen") = ArmEffect(s, "OpenBracket")) <=> s # "Potential"
    /\ det_done =>
           /\ result = DetRec(NewFrame, SwapClosers(input)).counters
           /\ \A i \in 1..Len(input) :
                  input[i] \in Closers =>
                      result = DetRec(NewFrame, SwapCloserAt(input, i)).counters

\* A scope opened by OpenParen and ended by CloseBracket; the chain goes on.
C27_Witness ==
    /\ det_done
    /\ input = <<"String", "OpenParen", "CloseBracket", "Dot", "String">>
    /\ tokens = <<>>
    /\ result = <<1>>

====
